---- MODULE Spec2Model ----
(***************************************************************************)
(* The GitLab targets of the pool scheduler                                *)
(* (src/poolsched/models/targets/gitlab.py, src/poolsched/models/users.py) *)
(* as a state machine over the shared store: the intention tables          *)
(* (IGLRaw, IGLEnrich), the Job table, the GLToken table with its          *)
(* token-jobs relation, the archive tables and the clock.  Workers are     *)
(* processes that hold, between two calls, the Python object they work on. *)
(***************************************************************************)
EXTENDS Integers, FiniteSets, Sequences, TLC

\* GLToken.MAX_JOBS_TOKEN
MAX_JOBS_TOKEN == 3

\* Bounds of the model: intention ids, Job rows, minutes on the clock, archive
\* rows, and the largest number of minutes a raw runner hands back.
MaxInts == 4
MaxJobs == 2
MaxTime == 2
MaxArch == 2
MaxOut == 2

None == 0
Users == {1, 2}
Workers == {1, 2}
Repos == {1}
Kinds == {"raw", "enrich"}
\* What a raw runner hands back: an integer (or it raises: a flag of the call)
RunnerOutputs == -1..MaxOut
\* What the enrichment runner hands back: "" or an error message.
EnrichOutputs == {"", "error"}

VARIABLES
    now,        \* django.utils.timezone.now(), in minutes
    ints,       \* live intention rows: id -> row
    nextInt,    \* next intention id (auto-increment)
    jobs,       \* Job rows: id -> [worker]
    tokens,     \* GLToken rows: id -> [user, reset, jobs]
    arch,       \* IGLRawArchived / IGLEnrichArchived rows, in insertion order
    pc,         \* per worker: where it is and the objects it holds
    claimed,    \* per job: the workers next_job returned it to, in order
    soft,       \* per job: the reset set by a soft failure no next_job call
                \* has followed yet (0: none)
    handlers    \* per worker process: the number of job-log handlers attached
                \* to its global logger

vars == <<now, ints, nextInt, jobs, tokens, arch, pc, claimed, soft, handlers>>

Idle == [st |-> "idle", obj |-> None, j |-> None, status |-> "OK"]

LiveIds == DOMAIN ints
JobIds == DOMAIN jobs
TokenIds == DOMAIN tokens

Min(S) == CHOOSE x \in S : \A y \in S : x <= y

\* The first n rows of a query, in the store's default (id) order: qs[:n]
FirstN(S, n) == {x \in S : Cardinality({y \in S : y < x}) < n}

\* GLToken rows of a user: user.gltokens.all() / GLToken.objects.filter(user=..)
TokensOf(T, u) == {t \in DOMAIN T : T[t].user = u}

\* job.gltokens: the tokens whose jobs relation holds the job
TokensOfJob(T, j) == {t \in DOMAIN T : j \in T[t].jobs}

\* Intention rows referencing a job
IntentionsOf(I, j) == {i \in DOMAIN I : I[i].job = j}

\* The Python object of a row: its columns (previous is a relation, not a column)
Obj(I, i) ==
    [id |-> i, kind |-> I[i].kind, user |-> I[i].user, repo |-> I[i].repo,
     job |-> I[i].job, created |-> I[i].created]

\* Model.save(): UPDATE the row of the object's id; INSERT it when no row has it
save(I, o) ==
    IF o.id \in DOMAIN I
    THEN [I EXCEPT ![o.id].job = o.job]
    ELSE (o.id :> [kind |-> o.kind, user |-> o.user, repo |-> o.repo,
                   job |-> o.job, previous |-> {}, created |-> o.created]) @@ I

\* Model.delete(): the row goes, and with it its rows of the previous relation
delete(I, i) ==
    [x \in DOMAIN I \ {i} |-> [I[x] EXCEPT !.previous = @ \ {i}]]

\* GLToken.is_ready
is_ready(t) == now > tokens[t].reset

\* IRawManager.selectable_intentions: the token_available query
token_available(u) ==
    \E t \in TokensOf(tokens, u) :
        /\ Cardinality(tokens[t].jobs) < MAX_JOBS_TOKEN
        /\ tokens[t].reset < now

\* The filter both managers share: previous=None, user=user, job=None
ready_rows(k, u) ==
    {i \in LiveIds : /\ ints[i].kind = k
                     /\ ints[i].previous = {}
                     /\ ints[i].user = u
                     /\ ints[i].job = None}

\* Mutant of IRawManager.selectable_intentions: without the token_available test
IRawManager_selectable_intentions_no_gate(u, max) ==
    FirstN(ready_rows("raw", u), max)

\* IRawManager.selectable_intentions(user, max)
IRawManager_selectable_intentions(u, max) ==
    IF ~token_available(u) THEN {} ELSE FirstN(ready_rows("raw", u), max)

\* IEnrichedManager.selectable_intentions(user, max)
IEnrichedManager_selectable_intentions_pending(u, max) ==
    FirstN({i \in LiveIds : /\ ints[i].kind = "enrich"
                            /\ ints[i].user = u
                            /\ ints[i].job = None}, max)

IEnrichedManager_selectable_intentions(u, max) ==
    FirstN(ready_rows("enrich", u), max)

selectable_intentions(k, u, max) ==
    IF k = "raw" THEN IRawManager_selectable_intentions(u, max)
    ELSE IEnrichedManager_selectable_intentions(u, max)

\* UserManager.random_user_ready: the users of the query q,
\* User.objects.filter(intention__previous=None, intention__job=None).  Both
\* conditions are IS NULL tests on the left outer join of users with their
\* intentions: they hold of a user with an intention that has no job and no
\* previous intention, and of a user with no intention at all.
users_ready ==
    {u \in Users :
        \/ \A i \in LiveIds : ints[i].user # u
        \/ \E i \in LiveIds : /\ ints[i].user = u
                              /\ ints[i].previous = {}
                              /\ ints[i].job = None}

\* UserManager.random_user_ready(max): the lists it may return, as sets;
\* sample() draws min(max, count) distinct rows of q
random_user_ready(max) ==
    LET n == IF max < Cardinality(users_ready) THEN max
             ELSE Cardinality(users_ready)
    IN {S \in SUBSET users_ready : Cardinality(S) = n}

\* IGLRaw.objects.get_or_create(repo=, user=): the rows get() matches
raw_rows(I, u, r) ==
    {i \in DOMAIN I : I[i].kind = "raw" /\ I[i].repo = r /\ I[i].user = u}

NewRowAt(k, u, r, t) ==
    [kind |-> k, user |-> u, repo |-> r, job |-> None, previous |-> {},
     created |-> t]

\* created = models.DateTimeField(default=now)
NewRow(k, u, r) == NewRowAt(k, u, r, now)

\* get_or_create without its get(): a row is created at every call
get_or_create_always(I, nxt, u, r) ==
    [ints |-> (nxt :> NewRow("raw", u, r)) @@ I, nextInt |-> nxt + 1,
     ret |-> nxt, raised |-> FALSE]

\* get_or_create: the row found, or a new one; with several rows matching,
\* get() raises MultipleObjectsReturned and nothing is written.
get_or_create(I, nxt, u, r) ==
    LET m == raw_rows(I, u, r) IN
    IF Cardinality(m) = 1
    THEN [ints |-> I, nextInt |-> nxt, ret |-> Min(m), raised |-> FALSE]
    ELSE IF m = {}
    THEN [ints |-> (nxt :> NewRow("raw", u, r)) @@ I, nextInt |-> nxt + 1,
          ret |-> nxt, raised |-> FALSE]
    ELSE [ints |-> I, nextInt |-> nxt, ret |-> None, raised |-> TRUE]

\* IGLEnrich.create_previous, called on the live row e
\* ret: the list returned, as the set of its elements
IGLEnrich_create_previous(I, nxt, e) ==
    LET g == get_or_create(I, nxt, I[e].user, I[e].repo) IN
    IF g.raised THEN [ints |-> I, nextInt |-> nxt, ret |-> {}, raised |-> TRUE]
    ELSE [ints |-> [g.ints EXCEPT ![e].previous = @ \cup {g.ret}],
          nextInt |-> g.nextInt, ret |-> {g.ret}, raised |-> FALSE]

\* running_job: candidates = self.repo.<kind>_set.filter(job__isnull=False)
candidates(o) ==
    {c \in LiveIds : /\ ints[c].kind = o.kind
                     /\ ints[c].repo = o.repo
                     /\ ints[c].job # None}

\* IGLRaw.running_job: the token rows after "for token in tokens: token.jobs.add"
IGLRaw_running_job_tokens(u, j) ==
    [t \in TokenIds |->
        IF tokens[t].user = u THEN [tokens[t] EXCEPT !.jobs = @ \cup {j}]
        ELSE tokens[t]]

\* IGLRaw.create_job: the tokens the loop attaches the job to
create_job_eligible(u) ==
    {t \in TokensOf(tokens, u) : Cardinality(tokens[t].jobs) < MAX_JOBS_TOKEN}

\* Mutant of IGLRaw.next_job: the query without .filter(job__worker=None)
IGLRaw_next_job_rows_any_worker ==
    {i \in LiveIds : /\ ints[i].kind = "raw"
                     /\ ints[i].job # None
                     /\ \E t \in TokensOfJob(tokens, ints[i].job) :
                            tokens[t].reset < now}

\* IGLRaw.next_job: the rows of the locked query
IGLRaw_next_job_rows ==
    {i \in LiveIds : /\ ints[i].kind = "raw"
                     /\ ints[i].job # None
                     /\ jobs[ints[i].job].worker = None
                     /\ \E t \in TokensOfJob(tokens, ints[i].job) :
                            tokens[t].reset < now}

\* IGLEnrich.next_job: the rows of the locked query
IGLEnrich_next_job_rows ==
    {i \in LiveIds : /\ ints[i].kind = "enrich"
                     /\ ints[i].job # None
                     /\ jobs[ints[i].job].worker = None}

next_job_rows(k) ==
    IF k = "raw" THEN IGLRaw_next_job_rows ELSE IGLEnrich_next_job_rows

\* IGLRaw.run: token = job.gltokens.filter(reset__lt=now()).first()
run_token(j) ==
    LET r == {t \in TokensOfJob(tokens, j) : tokens[t].reset < now} IN
    IF r = {} THEN None ELSE Min(r)

\* IGLRaw.run: the output after the try block (an exception gives 1)
run_output(exc, out) == IF exc THEN 1 ELSE out

\* Mutant of IGLRaw.run: without the "if output == 1" test
IGLRaw_run_result_no_sentinel(tok, exc, out) ==
    IF tok = None THEN "stop"
    ELSE IF run_output(exc, out) # 0 THEN "retry"
    ELSE "done"

\* IGLRaw.run: "stop" (Job.StopException), "retry" (False) or "done" (True)
IGLRaw_run_result(tok, exc, out) ==
    IF tok = None THEN "stop"
    ELSE IF run_output(exc, out) = 1 THEN "stop"
    ELSE IF run_output(exc, out) # 0 THEN "retry"
    ELSE "done"

\* Mutant of IGLRaw.run: the reset is set to now(), the minutes are dropped
IGLRaw_run_reset_now(tok, exc, out) ==
    IF IGLRaw_run_result(tok, exc, out) = "retry"
    THEN [tokens EXCEPT ![tok].reset = now]
    ELSE tokens

\* IGLRaw.run: token.reset = now() + timedelta(minutes=output)
IGLRaw_run_reset(tok, exc, out) ==
    IF IGLRaw_run_result(tok, exc, out) = "retry"
    THEN [tokens EXCEPT ![tok].reset = now + run_output(exc, out)]
    ELSE tokens

\* Mutant of IGLEnrich.run: without the "if output" test
IGLEnrich_run_result_ignored(out) == "done"

\* IGLEnrich.run: "stop" (Job.StopException) or "done" (True)
IGLEnrich_run_result(out) == IF out # "" THEN "stop" ELSE "done"

\* global_logger.addHandler(fh) / removeHandler(fh), on the number attached
addHandler(h) == h + 1
removeHandler(h) == h - 1

\* IGLRaw.run: the handlers when run exits.  Without a token run raises before
\* it attaches one; with one, the finally clause removes what the try attached.
IGLRaw_run_handlers(h, tok) ==
    IF tok = None THEN h ELSE removeHandler(addHandler(h))

\* IGLEnrich.run: the handlers when run exits; removeHandler is the statement
\* after runner.run(), not reached when the runner raises.
IGLEnrich_run_handlers(h, raises) ==
    IF raises THEN addHandler(h) ELSE removeHandler(addHandler(h))

\* IGLRaw.archive / IGLEnrich.archive: the archive row written
ArchiveRow(I, i, status) ==
    [kind |-> I[i].kind, user |-> I[i].user, repo |-> I[i].repo,
     created |-> I[i].created, status |-> status]

----------------------------------------------------------------------------
\* One token per user, created a minute ago (reset defaults to the time of
\* creation).
InitTokens == [t \in Users |-> [user |-> t, reset |-> 0, jobs |-> {}]]

\* The store when the workers start: user 1 has asked for the enrichment of
\* repo 1 (rows 1 and 2: the intention and its raw-collection prerequisite),
\* user 2 for the raw collection of repo 1 (row 3).
InitInts ==
    (1 :> [NewRowAt("enrich", 1, 1, 0) EXCEPT !.previous = {2}])
    @@ (2 :> NewRowAt("raw", 1, 1, 0))
    @@ (3 :> NewRowAt("raw", 2, 1, 0))

InitWith(I) ==
    /\ now = 1
    /\ ints = I
    /\ nextInt = Cardinality(DOMAIN I) + 1
    /\ jobs = <<>>
    /\ tokens = InitTokens
    /\ arch = <<>>
    /\ pc = [w \in Workers |-> Idle]
    /\ claimed = <<>>
    /\ soft = <<>>
    /\ handlers = [w \in Workers |-> 0]

Init == InitWith(InitInts)

\* The clock advances.
Tick(maxTime) ==
    /\ now < maxTime
    /\ now' = now + 1
    /\ UNCHANGED <<ints, nextInt, jobs, tokens, arch, pc, claimed, soft, handlers>>

\* A user asks for raw collection of a repo: one live row per (kind, repo,
\* user), a repeated request is merged into the live row.
RequestRaw(u, r, maxInts) ==
    LET g == get_or_create(ints, nextInt, u, r) IN
    /\ ~g.raised
    /\ g.nextInt <= maxInts + 1
    /\ ints' = g.ints
    /\ nextInt' = g.nextInt
    /\ UNCHANGED <<now, jobs, tokens, arch, pc, claimed, soft, handlers>>

enrich_rows(I, u, r) ==
    {i \in DOMAIN I : I[i].kind = "enrich" /\ I[i].repo = r /\ I[i].user = u}

\* A user asks for enrichment of a repo: the live row of (repo, user) is found
\* or created, and create_previous registers its prerequisites.
RequestEnrich(u, r, maxInts) ==
    LET m  == enrich_rows(ints, u, r)
        e  == IF m = {} THEN nextInt ELSE Min(m)
        I1 == IF m = {} THEN (nextInt :> NewRow("enrich", u, r)) @@ ints ELSE ints
        n1 == IF m = {} THEN nextInt + 1 ELSE nextInt
        c  == IGLEnrich_create_previous(I1, n1, e)
    IN
    /\ c.nextInt <= maxInts + 1
    /\ ints' = c.ints
    /\ nextInt' = c.nextInt
    /\ UNCHANGED <<now, jobs, tokens, arch, pc, claimed, soft, handlers>>

\* A worker's pass: it takes one of the selectable intentions of a ready user
Select(w, k, u, max, i) ==
    /\ pc[w].st = "idle"
    /\ \E S \in random_user_ready(Cardinality(Users)) : u \in S
    /\ i \in selectable_intentions(k, u, max)
    /\ pc' = [pc EXCEPT ![w] = [Idle EXCEPT !.st = "selected", !.obj = Obj(ints, i)]]
    /\ UNCHANGED <<now, ints, nextInt, jobs, tokens, arch, claimed, soft, handlers>>

\* IGLRaw.running_job / IGLEnrich.running_job on the worker's object
RunningJob(w) ==
    LET o == pc[w].obj
        c == candidates(o)
        j == ints[Min(c)].job
    IN
    /\ pc[w].st = "selected"
    /\ IF c = {}
       THEN /\ pc' = [pc EXCEPT ![w].st = "create"]
            /\ UNCHANGED <<ints, tokens>>
       ELSE /\ ints' = save(ints, [o EXCEPT !.job = j])
            /\ tokens' = IF o.kind = "raw"
                         THEN IGLRaw_running_job_tokens(o.user, j)
                         ELSE tokens
            /\ pc' = [pc EXCEPT ![w] = Idle]
    /\ UNCHANGED <<now, nextInt, jobs, arch, claimed, soft, handlers>>

NewJob == Cardinality(JobIds) + 1

\* Mutant of create_job: Job.objects.create() without the worker
NewJobRow_unclaimed(wk) == [worker |-> None]

\* create_job: Job.objects.create(worker=worker), the row created
NewJobRow(wk) == [worker |-> wk]

\* Mutant of IGLRaw.create_job: without token.jobs.add(self.job)
IGLRaw_create_job_tokens_none(u, j) == tokens

\* IGLRaw.create_job: the token rows after the loop attached job j
IGLRaw_create_job_tokens(u, j) ==
    LET el == create_job_eligible(u) IN
    [t \in TokenIds |->
        IF t \in el THEN [tokens[t] EXCEPT !.jobs = @ \cup {j}] ELSE tokens[t]]

\* IGLRaw.create_job / IGLEnrich.create_job on the worker's object, whose job
\* is None (running_job returned None); wk is the worker argument.  The job
\* is kept on the intention's live row.
CreateJob(w, wk, maxJobs) ==
    LET o  == pc[w].obj
        made == o.kind = "enrich" \/ create_job_eligible(o.user) # {}
        j  == NewJob
    IN
    /\ pc[w].st = "create"
    /\ IF made
       THEN /\ j <= maxJobs
            /\ jobs' = (j :> NewJobRow(wk)) @@ jobs
            /\ claimed' = (j :> <<>>) @@ claimed
            /\ soft' = (j :> 0) @@ soft
            /\ tokens' = IF o.kind = "raw"
                         THEN IGLRaw_create_job_tokens(o.user, j)
                         ELSE tokens
            /\ ints' = IF o.id \in LiveIds
                       THEN [ints EXCEPT ![o.id].job = j] ELSE ints
            /\ pc' = [pc EXCEPT ![w] =
                        IF wk = w THEN [Idle EXCEPT !.st = "run", !.j = j]
                        ELSE Idle]
       ELSE /\ pc' = [pc EXCEPT ![w] = Idle]
            /\ UNCHANGED <<jobs, claimed, soft, tokens, ints>>
    /\ UNCHANGED <<now, nextInt, arch, handlers>>

\* create_job when its transaction raises IntegrityError, at Job.objects.create
\* (at = "create") or at token.jobs.add (at = "add"): the transaction is rolled
\* back, None is returned; the Python object keeps what was assigned to it.
CreateJobConflict(w, at) ==
    LET o == pc[w].obj IN
    /\ pc[w].st = "create"
    /\ at = "add" => (o.kind = "raw" /\ create_job_eligible(o.user) # {})
    /\ pc' = [pc EXCEPT ![w] =
                [Idle EXCEPT !.st = "conflict",
                             !.obj = IF at = "add" THEN [o EXCEPT !.job = NewJob]
                                     ELSE o]]
    /\ UNCHANGED <<now, ints, nextInt, jobs, tokens, arch, claimed, soft, handlers>>

\* The worker ends its pass without a job; its next pass reads the store again
EndPass(w) ==
    /\ pc[w].st = "conflict"
    /\ pc' = [pc EXCEPT ![w] = Idle]
    /\ UNCHANGED <<now, ints, nextInt, jobs, tokens, arch, claimed, soft, handlers>>

\* IGLRaw.next_job / IGLEnrich.next_job(worker), when it returns a job
\* (a call that returns None changes nothing)
NextJob(w, k) ==
    LET rows == next_job_rows(k)
        j == ints[Min(rows)].job
    IN
    /\ pc[w].st = "idle"
    /\ rows # {}
    /\ jobs' = [jobs EXCEPT ![j].worker = w]
    /\ claimed' = [claimed EXCEPT ![j] = IF Len(@) < 2 THEN Append(@, w) ELSE @]
    /\ soft' = [soft EXCEPT ![j] = 0]
    /\ pc' = [pc EXCEPT ![w] = [Idle EXCEPT !.st = "run", !.j = j]]
    /\ UNCHANGED <<now, ints, nextInt, tokens, arch, handlers>>

\* IGLRaw.run(job) on an intention of the worker's job
RunRaw(w, i, exc, out) ==
    LET j == pc[w].j
        tok == run_token(j)
        res == IGLRaw_run_result(tok, exc, out)
    IN
    /\ pc[w].st = "run"
    /\ i \in IntentionsOf(ints, j)
    /\ ints[i].kind = "raw"
    /\ tokens' = IGLRaw_run_reset(tok, exc, out)
    /\ soft' = IF res = "retry"
               THEN [soft EXCEPT ![j] = now + run_output(exc, out)] ELSE soft
    /\ pc' = [pc EXCEPT ![w] =
                IF res = "retry" THEN Idle
                ELSE [Idle EXCEPT !.st = "archive", !.j = j,
                                  !.status = IF res = "done" THEN "OK" ELSE "ER"]]
    /\ handlers' = [handlers EXCEPT ![w] = IGLRaw_run_handlers(@, tok)]
    /\ UNCHANGED <<now, ints, nextInt, jobs, arch, claimed>>

\* IGLEnrich.run(job) on an intention of the worker's job
RunEnrich(w, i, out) ==
    LET j == pc[w].j
        res == IGLEnrich_run_result(out)
    IN
    /\ pc[w].st = "run"
    /\ i \in IntentionsOf(ints, j)
    /\ ints[i].kind = "enrich"
    /\ pc' = [pc EXCEPT ![w] =
                [Idle EXCEPT !.st = "archive", !.j = j,
                             !.status = IF res = "done" THEN "OK" ELSE "ER"]]
    /\ handlers' = [handlers EXCEPT ![w] = IGLEnrich_run_handlers(@, FALSE)]
    /\ UNCHANGED <<now, ints, nextInt, jobs, tokens, arch, claimed, soft>>

\* IGLEnrich.run(job) when the runner raises: the exception leaves run, and
\* the worker takes it for a failure of the job
RunEnrichRaises(w, i, maxHandlers) ==
    LET j == pc[w].j IN
    /\ pc[w].st = "run"
    /\ i \in IntentionsOf(ints, j)
    /\ ints[i].kind = "enrich"
    /\ handlers[w] < maxHandlers
    /\ pc' = [pc EXCEPT ![w] = [Idle EXCEPT !.st = "archive", !.j = j,
                                             !.status = "ER"]]
    /\ handlers' = [handlers EXCEPT ![w] = IGLEnrich_run_handlers(@, TRUE)]
    /\ UNCHANGED <<now, ints, nextInt, jobs, tokens, arch, claimed, soft>>

\* The worker's job is referenced by no live intention: nothing to run
RunNone(w) ==
    /\ pc[w].st = "run"
    /\ IntentionsOf(ints, pc[w].j) = {}
    /\ pc' = [pc EXCEPT ![w] = Idle]
    /\ UNCHANGED <<now, ints, nextInt, jobs, tokens, arch, claimed, soft, handlers>>

\* IGLRaw.archive / IGLEnrich.archive(status) on an intention of the finished
\* job; the worker is done when none is left
Archive(w, maxArch) ==
    LET j == pc[w].j
        S == IntentionsOf(ints, j)
        i == Min(S)
    IN
    /\ pc[w].st = "archive"
    /\ IF S = {}
       THEN /\ pc' = [pc EXCEPT ![w] = Idle]
            /\ UNCHANGED <<ints, arch>>
       ELSE /\ Len(arch) < maxArch
            /\ arch' = Append(arch, ArchiveRow(ints, i, pc[w].status))
            /\ ints' = delete(ints, i)
            /\ pc' = pc
    /\ UNCHANGED <<now, nextInt, jobs, tokens, claimed, soft, handlers>>

\* The two steps of get_or_create in create_previous, as two statements on the
\* store: get() ...
PrevGet(w, e) ==
    LET m == raw_rows(ints, ints[e].user, ints[e].repo) IN
    /\ pc[w].st = "idle"
    /\ e \in LiveIds /\ ints[e].kind = "enrich"
    /\ Cardinality(m) <= 1
    /\ IF m = {}
       THEN /\ pc' = [pc EXCEPT ![w] = [Idle EXCEPT !.st = "prevcreate",
                                                    !.obj = Obj(ints, e)]]
            /\ ints' = ints
       ELSE /\ ints' = [ints EXCEPT ![e].previous = @ \cup m]
            /\ pc' = pc
    /\ UNCHANGED <<now, nextInt, jobs, tokens, arch, claimed, soft, handlers>>

\* ... and, after DoesNotExist, create(), followed by self.previous.add
PrevCreate(w, maxInts) ==
    LET o == pc[w].obj
        I1 == (nextInt :> NewRow("raw", o.user, o.repo)) @@ ints
    IN
    /\ pc[w].st = "prevcreate"
    /\ nextInt <= maxInts
    /\ ints' = IF o.id \in LiveIds
               THEN [I1 EXCEPT ![o.id].previous = @ \cup {nextInt}] ELSE I1
    /\ nextInt' = nextInt + 1
    /\ pc' = [pc EXCEPT ![w] = Idle]
    /\ UNCHANGED <<now, jobs, tokens, arch, claimed, soft, handlers>>

\* What a worker does; outs, excs and eouts are what the runners may hand back
WorkerStep(w, maxJobs, maxArch, outs, excs, eouts) ==
    \/ \E k \in Kinds, u \in Users, max \in 1..2, i \in LiveIds :
          Select(w, k, u, max, i)
    \/ RunningJob(w)
    \/ \E wk \in {None, w} : CreateJob(w, wk, maxJobs)
    \/ \E k \in Kinds : NextJob(w, k)
    \/ \E i \in LiveIds, exc \in excs, out \in outs : RunRaw(w, i, exc, out)
    \/ \E i \in LiveIds, out \in eouts : RunEnrich(w, i, out)
    \/ RunNone(w)
    \/ Archive(w, maxArch)

Work(maxJobs, maxArch, outs, excs, eouts) ==
    \E w \in Workers : WorkerStep(w, maxJobs, maxArch, outs, excs, eouts)

\* The workers on the requests of Init, with runners that may fail
Next ==
    \/ Tick(MaxTime)
    \/ Work(MaxJobs, MaxArch, RunnerOutputs, BOOLEAN, EnrichOutputs)

Spec == Init /\ [][Next]_vars

\* Requests arriving while one worker runs, with runners that succeed: every
\* call on the store is made in sequence.  At first user 1 has asked for the
\* enrichment of repo 1.
ReqInts ==
    (1 :> [NewRowAt("enrich", 1, 1, 0) EXCEPT !.previous = {2}])
    @@ (2 :> NewRowAt("raw", 1, 1, 0))

InitReq == InitWith(ReqInts)

NextReq ==
    \/ Tick(MaxTime)
    \/ \E u \in Users, r \in Repos : RequestRaw(u, r, MaxInts)
    \/ \E u \in Users, r \in Repos : RequestEnrich(u, r, MaxInts)
    \/ \E k \in Kinds, u \in Users, i \in LiveIds : Select(1, k, u, 1, i)
    \/ RunningJob(1)
    \/ \E wk \in {None, 1} : CreateJob(1, wk, MaxJobs)
    \/ \E k \in Kinds : NextJob(1, k)
    \/ \E i \in LiveIds : RunRaw(1, i, FALSE, 0)
    \/ \E i \in LiveIds : RunEnrich(1, i, "")
    \/ Archive(1, MaxArch)

SpecReq == InitReq /\ [][NextReq]_vars

\* The workers on that one request, with runners that may fail
NextRun ==
    \/ Tick(MaxTime)
    \/ Work(MaxJobs, MaxArch, RunnerOutputs, BOOLEAN, EnrichOutputs)

SpecRun == InitReq /\ [][NextRun]_vars

\* Two users' raw-collection requests for the same repo (rows 1 and 2), the
\* workers sharing one job between them, with runners that may fail.
JoinInts ==
    (1 :> NewRowAt("raw", 1, 1, 0)) @@ (2 :> NewRowAt("raw", 2, 1, 0))

InitJoin == InitWith(JoinInts)

NextJoin ==
    \/ Tick(MaxTime)
    \/ \E w \in Workers, u \in Users, max \in 1..2, i \in LiveIds :
          Select(w, "raw", u, max, i)
    \/ \E w \in Workers : RunningJob(w)
    \/ \E w \in Workers : \E wk \in {None, w} : CreateJob(w, wk, MaxJobs)
    \/ \E w \in Workers : NextJob(w, "raw")
    \/ \E w \in Workers, i \in LiveIds, exc \in BOOLEAN, out \in RunnerOutputs :
          RunRaw(w, i, exc, out)
    \/ \E w \in Workers : RunNone(w)
    \/ \E w \in Workers : Archive(w, MaxArch)

SpecJoin == InitJoin /\ [][NextJoin]_vars

\* The workers on one enrichment request, with create_job calls whose
\* transaction may conflict, the runners succeeding.
NextConflict ==
    \/ Work(MaxJobs, MaxArch, {0}, {FALSE}, {""})
    \/ \E w \in Workers, at \in {"create", "add"} : CreateJobConflict(w, at)
    \/ \E w \in Workers : EndPass(w)

SpecConflict == InitReq /\ [][NextConflict]_vars

\* The workers on one enrichment request, with runners that may fail and an
\* enrichment runner that may raise.
LogHandlers == MaxArch

NextLog ==
    \/ Work(MaxJobs, MaxArch, RunnerOutputs, BOOLEAN, EnrichOutputs)
    \/ \E w \in Workers, i \in LiveIds : RunEnrichRaises(w, i, LogHandlers)

SpecLog == InitReq /\ [][NextLog]_vars

\* Raw collection of more repos than a token admits jobs: user 1 has asked for
\* the raw collection of repos 1..MAX_JOBS_TOKEN+1, user 2 for that of the
\* last of them; the workers call running_job and create_job.
SchedRepos == MAX_JOBS_TOKEN + 1
SchedJobs == MAX_JOBS_TOKEN + 2

SchedInts ==
    [i \in 1..(SchedRepos + 1) |->
        IF i <= SchedRepos THEN NewRowAt("raw", 1, i, 0)
        ELSE NewRowAt("raw", 2, SchedRepos, 0)]

InitSched == InitWith(SchedInts)

NextSched ==
    \/ \E w \in Workers, u \in Users, max \in 1..SchedRepos, i \in LiveIds :
          Select(w, "raw", u, max, i)
    \/ \E w \in Workers : RunningJob(w)
    \/ \E w \in Workers : CreateJob(w, None, SchedJobs)

SpecSched == InitSched /\ [][NextSched]_vars

\* The same raw-collection requests, with one worker that runs each job to
\* its end before its next pass, the runners succeeding.
CapArch == MAX_JOBS_TOKEN

NextCap ==
    \/ Tick(MaxTime)
    \/ \E u \in Users, i \in LiveIds : Select(1, "raw", u, 1, i)
    \/ RunningJob(1)
    \/ CreateJob(1, 1, SchedJobs)
    \/ \E i \in LiveIds : RunRaw(1, i, FALSE, 0)
    \/ Archive(1, CapArch)

SpecCap == InitSched /\ [][NextCap]_vars

\* Selection while tokens fill up and wait: user 1 has asked for the
\* enrichment of repo 1 and for the raw collection of MAX_JOBS_TOKEN more
\* repos; one worker, runners that succeed or ask for a retry.
SelInts ==
    [i \in 1..(MAX_JOBS_TOKEN + 2) |->
        IF i = 1 THEN [NewRowAt("enrich", 1, 1, 0) EXCEPT !.previous = {2}]
        ELSE NewRowAt("raw", 1, i - 1, 0)]

SelJobs == MAX_JOBS_TOKEN + 2
SelArch == MAX_JOBS_TOKEN + 2
SelTime == MaxOut + 2

InitSel == InitWith(SelInts)

NextSel ==
    \/ Tick(SelTime)
    \/ \E k \in Kinds, u \in Users, max \in 1..2, i \in LiveIds :
          Select(1, k, u, max, i)
    \/ RunningJob(1)
    \/ CreateJob(1, 1, SelJobs)
    \/ \E i \in LiveIds, out \in {0, MaxOut} : RunRaw(1, i, FALSE, out)
    \/ \E i \in LiveIds : RunEnrich(1, i, "")
    \/ Archive(1, SelArch)

SpecSel == InitSel /\ [][NextSel]_vars

\* Concurrent calls of create_previous, and direct requests, once the raw
\* collection user 1's enrichment of repo 1 waited for has been archived.
RaceInts == (1 :> NewRowAt("enrich", 1, 1, 0))

InitRace ==
    /\ now = 1
    /\ ints = RaceInts
    /\ nextInt = 3
    /\ jobs = <<>>
    /\ tokens = InitTokens
    /\ arch = <<[kind |-> "raw", user |-> 1, repo |-> 1, created |-> 0,
                 status |-> "OK"]>>
    /\ pc = [w \in Workers |-> Idle]
    /\ claimed = <<>>
    /\ soft = <<>>
    /\ handlers = [w \in Workers |-> 0]

RaceInts_Max == MaxInts + 2

NextRace ==
    \/ Tick(MaxTime + 1)
    \/ \E w \in Workers, e \in LiveIds : PrevGet(w, e)
    \/ \E w \in Workers : PrevCreate(w, RaceInts_Max)
    \/ \E u \in Users, r \in Repos : RequestRaw(u, r, RaceInts_Max)
    \/ \E u \in Users, r \in Repos : RequestEnrich(u, r, RaceInts_Max)

SpecRace == InitRace /\ [][NextRace]_vars

\* A raw collection that fails softly, under workers that keep polling and a
\* clock that keeps running.
SoftTime == MaxOut + 3

InitSoft == InitWith(ReqInts)

NextSoft ==
    \/ Tick(SoftTime)
    \/ Work(MaxJobs, MaxArch, {0, MaxOut}, {FALSE}, {""})

FairSoft ==
    /\ InitSoft /\ [][NextSoft]_vars
    /\ WF_vars(Tick(SoftTime))
    /\ \A w \in Workers :
          WF_vars(WorkerStep(w, MaxJobs, MaxArch, {0, MaxOut}, {FALSE}, {""}))

\* End to end: user 1 has asked for the enrichment of repo 1, its token is
\* ready, the runners succeed and the workers keep polling.
E2EJobs == 2 * Cardinality(Workers)
E2EArch == MaxArch + 1

InitE2E == InitWith(ReqInts)

NextE2E == Work(E2EJobs, E2EArch, {0}, {FALSE}, {""})

FairE2E ==
    /\ InitE2E /\ [][NextE2E]_vars
    /\ \A w \in Workers :
          WF_vars(WorkerStep(w, E2EJobs, E2EArch, {0}, {FALSE}, {""}))

----------------------------------------------------------------------------
\* What a step of IGLRaw.run tells its caller: pc' of the worker
Returned(w, res) ==
    IF res = "retry" THEN pc'[w].st = "idle"
    ELSE /\ pc'[w].st = "archive"
         /\ pc'[w].status = (IF res = "done" THEN "OK" ELSE "ER")

\* C2: next_job returns a queued job to one caller only.  A job is returned by
\* at most one next_job call, whatever the number of workers calling and of
\* intentions referencing the job, and its worker is the caller it was
\* returned to.
C2_OneClaim ==
    \A j \in JobIds :
        /\ Len(claimed[j]) <= 1
        /\ Len(claimed[j]) = 1 => jobs[j].worker = claimed[j][1]

\* A job shared by two intentions was returned to one worker, and the other
\* worker, idle, finds nothing to claim.
C2_Witness ==
    \E j \in JobIds :
        /\ Len(claimed[j]) = 1
        /\ Cardinality(IntentionsOf(ints, j)) >= 2
        /\ \E w \in Workers : /\ w # claimed[j][1]
                              /\ pc[w].st = "idle"
                              /\ next_job_rows("raw") = {}

\* The steps of next_job after a soft failure: the job is not returned while
\* the clock is before the reset the failure set.
NextJobWaits ==
    \A w \in Workers, k \in Kinds :
        NextJob(w, k) =>
            ~(soft[pc'[w].j] # 0 /\ now < soft[pc'[w].j])

\* A run whose runner hands back out minutes: the token used has its reset at
\* now+out, run returns False, no archive row is written and the intention
\* keeps its job.
SoftFailure(outs) ==
    \A w \in Workers, i \in LiveIds, out \in outs :
        (RunRaw(w, i, FALSE, out) /\ run_token(pc[w].j) # None) =>
            /\ tokens'[run_token(pc[w].j)].reset = now + out
            /\ Returned(w, "retry")
            /\ arch' = arch
            /\ i \in DOMAIN ints' /\ ints'[i].job = pc[w].j

\* C5 as stated: every positive number of minutes is a soft failure.
C5_Original == [][SoftFailure(1..MaxOut) /\ NextJobWaits]_vars

\* C5, amended: a runner handing back N >= 2 minutes (1 is the failure
\* value) makes run set the used token's reset to now+N and return False; no
\* archive row is written, the intention keeps its job, and next_job does not
\* return the job while the clock is before that reset.
C5_SoftFailure == [][SoftFailure(2..MaxOut) /\ NextJobWaits]_vars

\* A job has failed softly: its token waits for a reset still to come, its
\* intention is live and holds it, nothing is archived.
C5_Witness ==
    \E j \in JobIds :
        /\ soft[j] > now
        /\ \E t \in TokensOfJob(tokens, j) : tokens[t].reset = soft[j]
        /\ IntentionsOf(ints, j) # {}
        /\ jobs[j].worker # None /\ pc[jobs[j].worker].st = "idle"
        /\ arch = <<>>

\* The result of a run on a job that holds a ready token, by the output
Classified(w, i, exc, out, res, resets) ==
    (RunRaw(w, i, exc, out) /\ run_token(pc[w].j) # None) =>
        /\ Returned(w, res)
        /\ IF resets
           THEN tokens' = [tokens EXCEPT ![run_token(pc[w].j)].reset = now + out]
           ELSE tokens' = tokens

OneLiveRow(I) ==
    \A a, b \in DOMAIN I :
        (I[a].kind = I[b].kind /\ I[a].repo = I[b].repo /\ I[a].user = I[b].user)
            => a = b

\* Live jobs: those some live intention references
LiveJobs == {j \in JobIds : IntentionsOf(ints, j) # {}}

\* C1, as stated: in every state reached by workers calling running_job and
\* create_job on raw-collection intentions, each token is attached to at most
\* MAX_JOBS_TOKEN jobs that are not finished.
C1_TokenCap ==
    \A t \in TokenIds : Cardinality(tokens[t].jobs \cap LiveJobs) <= MAX_JOBS_TOKEN

\* C3, as stated: two live intentions of the same kind on the same repo that
\* both have a job have the same job, at all times.
C3_OneJobPerRepo ==
    \A a, b \in LiveIds :
        (/\ ints[a].kind = ints[b].kind
         /\ ints[a].repo = ints[b].repo
         /\ ints[a].job # None
         /\ ints[b].job # None) => ints[a].job = ints[b].job

\* C4, as stated: an intention whose previous set is not empty has no job.
C4_PendingHasNoJob ==
    \A i \in LiveIds : ints[i].previous # {} => ints[i].job = None

\* C6, as stated: a raw-collection job that failed softly is returned by
\* next_job again, under workers that keep polling and a clock that runs past
\* the new reset of its token.
C6_Retried ==
    \A j \in 1..MaxJobs :
        (j \in JobIds /\ soft[j] # 0) ~> (j \in JobIds /\ soft[j] = 0)

\* The store after one call and after two calls of create_previous on row e
Once(e) == IGLEnrich_create_previous(ints, nextInt, e)
Twice(e) == IGLEnrich_create_previous(Once(e).ints, Once(e).nextInt, e)

\* C7: calling create_previous twice in sequence on an enrichment intention
\* leaves the state one call leaves and both calls return the same intention,
\* the one live raw-collection intention of the (repo, user), which is in the
\* previous set of the enrichment intention.
C7_Idempotent ==
    \A e \in LiveIds : ints[e].kind = "enrich" =>
        LET m == raw_rows(Twice(e).ints, ints[e].user, ints[e].repo) IN
        /\ ~Once(e).raised /\ ~Twice(e).raised
        /\ Twice(e).ints = Once(e).ints
        /\ Twice(e).nextInt = Once(e).nextInt
        /\ Twice(e).ret = Once(e).ret
        /\ Cardinality(m) = 1
        /\ Twice(e).ret = m
        /\ m \subseteq Twice(e).ints[e].previous
        /\ \A p \in Twice(e).ints[e].previous :
              p \in DOMAIN Twice(e).ints /\ (Twice(e).ints[p].kind = "raw" => p \in m)

\* C7's case: an enrichment intention on which create_previous was called when
\* its prerequisite was there and for which the next call has to create it
C7_Witness ==
    \E e \in LiveIds :
        /\ ints[e].kind = "enrich"
        /\ ints[e].previous = {}
        /\ raw_rows(ints, ints[e].user, ints[e].repo) = {}
        /\ Len(arch) >= 1
        /\ Once(e).nextInt = nextInt + 1

\* C8, as stated: at most one live row per (kind, repo, user).
C8_OneLiveRow == OneLiveRow(ints)

E2EDone ==
    /\ Len(arch) = 2
    /\ arch[1].kind = "raw" /\ arch[1].status = "OK"
    /\ arch[2].kind = "enrich" /\ arch[2].status = "OK"
    /\ LiveIds = {}

\* C9: from one enrichment request of a user whose token is ready, with runners
\* that succeed and workers that keep polling, the store ends with two archive
\* rows, raw collection then enrichment, both OK, and no live intention; the
\* enrichment runs only once the raw collection is archived.
C9_EndToEnd ==
    /\ <>[]E2EDone
    /\ [][\A w \in Workers, i \in LiveIds :
            RunEnrich(w, i, "") => (Len(arch) = 1 /\ arch[1].kind = "raw"
                                     /\ arch[1].status = "OK")]_vars

C9_Witness == E2EDone /\ \A w \in Workers : pc[w].st = "idle"

\* C11: when the enrichment runner hands back an error message, run stops
\* (Job.StopException), and archive with the error status appends one archive
\* row carrying the intention's user, repo, created time and the error status
\* and deletes the live row.
C11_ErrorArchived ==
    [][\A w \in Workers, i \in LiveIds :
         /\ RunEnrich(w, i, "error") => Returned(w, "stop")
         /\ (/\ Archive(w, MaxArch)
             /\ pc[w].status = "ER"
             /\ i \in IntentionsOf(ints, pc[w].j)
             /\ i = Min(IntentionsOf(ints, pc[w].j))
             /\ ints[i].kind = "enrich")
            => /\ arch' = Append(arch, [kind |-> "enrich", user |-> ints[i].user,
                                        repo |-> ints[i].repo,
                                        created |-> ints[i].created,
                                        status |-> "ER"])
               /\ i \notin DOMAIN ints']_vars

\* An enrichment that failed is archived with the error status and has no
\* live row.
C11_Witness ==
    \E n \in 1..Len(arch) :
        /\ arch[n].kind = "enrich" /\ arch[n].status = "ER"
        /\ enrich_rows(ints, arch[n].user, arch[n].repo) = {}

\* C12, as stated: an enrichment intention whose raw-collection prerequisite
\* was registered is ready (previous empty) only once that prerequisite has
\* been archived with status OK; an archival with the error status does not
\* make it ready.
C12_PendingUntilSuccess ==
    \A e \in LiveIds :
        (ints[e].kind = "enrich" /\ ints[e].previous = {}) =>
            \E n \in 1..Len(arch) :
                /\ arch[n].kind = "raw" /\ arch[n].status = "OK"
                /\ arch[n].user = ints[e].user /\ arch[n].repo = ints[e].repo

\* C13, as stated: a job all of whose intentions are archived does not count
\* against the cap of the tokens it holds: a token with fewer than
\* MAX_JOBS_TOKEN unfinished jobs is one create_job attaches a new job to and,
\* past its reset, one that makes its user's intentions selectable.
C13_CapacityFreed ==
    \A t \in TokenIds :
        Cardinality(tokens[t].jobs \cap LiveJobs) < MAX_JOBS_TOKEN =>
            /\ t \in create_job_eligible(tokens[t].user)
            /\ tokens[t].reset < now => token_available(tokens[t].user)

\* The steps after which a job's worker is another: next_job alone, on a job
\* that had none
OnlyNextJobAssigns ==
    \A j \in JobIds :
        jobs'[j].worker # jobs[j].worker =>
            /\ jobs[j].worker = None
            /\ \E w \in Workers, k \in Kinds : NextJob(w, k) /\ jobs'[j].worker = w

\* C14 as stated: a job is created with no worker, and next_job alone gives a
\* job its worker.
C14_Original ==
    [][/\ \A j \in DOMAIN jobs' \ JobIds : jobs'[j].worker = None
       /\ OnlyNextJobAssigns]_vars

\* C14, amended: create_job(worker) creates the job with the worker it is
\* passed, so the job has no worker at its creation only when create_job is
\* passed none; afterwards next_job alone gives a job a worker.
C14_CreatedWithArgument ==
    [][/\ \A j \in DOMAIN jobs' \ JobIds :
            \E w \in Workers : \E wk \in {None, w} :
                CreateJob(w, wk, MaxJobs) /\ jobs'[j].worker = wk
       /\ OnlyNextJobAssigns]_vars

\* A job has the worker create_job was passed: next_job never returned it.
C14_Witness ==
    \E j \in JobIds :
        /\ jobs[j].worker # None
        /\ claimed[j] = <<>>
        /\ pc[jobs[j].worker].st = "run" /\ pc[jobs[j].worker].j = j

\* C15: a job that has a worker keeps that worker in every later state,
\* whatever the workers call: next_job, run (done, soft or hard failure),
\* running_job, create_job, archive.
C15_WorkerKept ==
    [][\A j \in JobIds :
          jobs[j].worker # None => jobs'[j].worker = jobs[j].worker]_vars

\* A job failed softly and has its worker still, once the reset the failure
\* set has passed and with both workers idle, calling next_job.
C15_Witness ==
    \E j \in JobIds :
        /\ jobs[j].worker # None /\ soft[j] # 0 /\ now > soft[j]
        /\ IntentionsOf(ints, j) # {}
        /\ \A w \in Workers : pc[w].st = "idle"

UsableToken(u) ==
    \E t \in TokenIds : /\ tokens[t].user = u
                        /\ Cardinality(tokens[t].jobs) < MAX_JOBS_TOKEN
                        /\ tokens[t].reset < now

\* The live rows selectable_intentions may return for a user
ReadyOf(k, u) ==
    {i \in LiveIds : /\ ints[i].kind = k /\ ints[i].user = u
                     /\ ints[i].previous = {} /\ ints[i].job = None}

\* C17: selectable_intentions(user, max) returns at most max intentions, all
\* of the user, of the kind, with no previous intention and no job; for raw
\* collection it returns none unless the user has a token below its cap and
\* past its reset, and some when the user has one and ready intentions; for
\* enrichment it returns some whenever the user has ready intentions, whatever
\* the tokens; the worker's call changes nothing in the store.
C17_Selectable ==
    /\ [](\A k \in Kinds, u \in Users, max \in 0..(MAX_JOBS_TOKEN + 2) :
            LET S == selectable_intentions(k, u, max) IN
            /\ Cardinality(S) <= max
            /\ S \subseteq ReadyOf(k, u)
            /\ (k = "raw" /\ ~UsableToken(u)) => S = {}
            /\ (k = "enrich" \/ UsableToken(u)) =>
                  (Cardinality(S) < max => S = ReadyOf(k, u)))
    /\ [][\A w \in Workers, k \in Kinds, u \in Users, max \in 1..2, i \in LiveIds :
            Select(w, k, u, max, i) =>
                UNCHANGED <<now, ints, nextInt, jobs, tokens, arch>>]_vars

\* User 1 has a ready raw-collection intention and a ready enrichment
\* intention while its token is at its cap: the first is not selectable, the
\* second is.
C17_Witness ==
    /\ ReadyOf("raw", 1) # {} /\ ReadyOf("enrich", 1) # {}
    /\ ~UsableToken(1)
    /\ \A t \in TokensOf(tokens, 1) : tokens[t].reset < now
    /\ selectable_intentions("raw", 1, 2) = {}
    /\ selectable_intentions("enrich", 1, 2) # {}

\* C18, as stated: for both kinds, no job-log handler is attached to the
\* logger once run has exited, by whatever path: success, soft failure, hard
\* failure, or an exception of the runner.
C18_HandlerRemoved == \A w \in Workers : handlers[w] = 0

\* C19, as stated: random_user_ready(max) returns at most max users, each with
\* an intention that has no previous intention and no job; a user with no
\* intention, or with none such, is not returned.
C19_ReadyUsers ==
    \A max \in 0..Cardinality(Users) : \A S \in random_user_ready(max) :
        /\ Cardinality(S) <= max
        /\ \A u \in S : \E i \in LiveIds : /\ ints[i].user = u
                                           /\ ints[i].previous = {}
                                           /\ ints[i].job = None

\* C20: every job a live raw-collection intention references holds at least
\* one token, so IGLRaw.run is never called on a job with no token.
C20_JobHoldsToken ==
    \A i \in LiveIds :
        (ints[i].kind = "raw" /\ ints[i].job # None) =>
            TokensOfJob(tokens, ints[i].job) # {}

\* A job created for one user's intention and joined by another user's
\* through running_job holds the tokens of both, and its worker is to run it.
C20_Witness ==
    \E j \in JobIds :
        /\ \E a, b \in IntentionsOf(ints, j) :
              /\ ints[a].kind = "raw" /\ ints[b].kind = "raw"
              /\ ints[a].user # ints[b].user
        /\ \A u \in Users : TokensOf(tokens, u) \subseteq TokensOfJob(tokens, j)
        /\ \E w \in Workers : pc[w].st = "run" /\ pc[w].j = j

====
